---- MODULE Spec2Model ----
(***************************************************************************)
(* A model of the Tamr client's AttributeConfigurationCollection           *)
(* (models/attribute_configuration/collection.py) and MasteringProject     *)
(* (mastering/project.py).                                                 *)
(*                                                                         *)
(* The client is synchronous and single-threaded: the caller makes one     *)
(* call at a time.  `call` describes the call that is running or that ran  *)
(* last, `reqs` the HTTP exchanges that call issued (request and the       *)
(* server's answer), `res` the resource the call returned.  The servers'   *)
(* answers are inputs of the actions.  The generic base classes            *)
(* (BaseCollection, BaseResource, Client, DatasetCollection, Project) are  *)
(* not part of the sources at hand and are modelled from the design        *)
(* document.                                                               *)
(***************************************************************************)
EXTENDS Integers, Sequences, FiniteSets, TLC

VARIABLES coll, proj, call, reqs, res, vgen, sgen, server

vars == <<coll, proj, call, reqs, res, vgen, sgen, server>>

(***************************************************************************)
(* Bounds of the model.                                                    *)
(***************************************************************************)
\* longest sequence of ids handed to a cluster-version stream
MaxIds == 2
\* most response lines of a cluster-version stream
MaxLines == 2
\* most entries of the backing attribute-configuration collection
MaxEntries == 3
\* largest page the server serves
MaxPage == 2

(***************************************************************************)
(* Values.                                                                 *)
(***************************************************************************)
None == [none |-> TRUE]

\* HTTP statuses the server answers with (204 is what test_create answers)
Statuses == {200, 204, 401, 403, 404, 500}

\* attribute configuration objects as the server sends them
ACBody(n, name, enabled) ==
    [id |-> "unify://unified-data/v1/projects/1/attributeConfigurations/" \o n,
     relativeId |-> "projects/1/attributeConfigurations/" \o n,
     relativeAttributeId |-> "datasets/8/attributes/" \o name,
     attributeRole |-> "",
     similarityFunction |-> "COSINE",
     enabledForMl |-> enabled,
     tokenizer |-> "",
     numericFieldResolution |-> <<>>,
     attributeName |-> name]

ACBodies == {ACBody("1", "suburb", TRUE), ACBody("35", "Tester", FALSE)}

ACFields == {"id", "relativeId", "relativeAttributeId", "attributeRole",
             "similarityFunction", "enabledForMl", "tokenizer",
             "numericFieldResolution", "attributeName"}

\* paths an AttributeConfigurationCollection is constructed with (the tests
\* construct it with a trailing slash)
CollPaths == {"projects/1/attributeConfigurations",
              "projects/1/attributeConfigurations/"}

ResourceIds == {"1", "35"}

RelativeIds == {"projects/1/attributeConfigurations/1",
                "projects/1/attributeConfigurations/35"}

ExternalIds == {"ext-1", ""}

CreationSpecs == {[attributeName |-> "Tester", similarityFunction |-> "ABSOLUTE_DIFF"],
                  [attributeName |-> "suburb", similarityFunction |-> "COSINE"]}

\* dataset objects as the server sends them
DatasetBody(n, name) == [relativeId |-> "datasets/" \o n, name |-> name]

\* names a project's unified dataset may have
UnifiedNames == {"project 1 unified dataset", "ud"}

UnifiedDatasets == {DatasetBody("8", n) : n \in UnifiedNames}

\* the suffixes of the datasets the mastering pipeline derives from it
Suffixes == {"_dedup_published_clusters", "_dedup_all_persistent_ids",
             "_dedup_published_cluster_stats", "_dedup_clusters_with_data",
             "_dedup_published_clusters_with_data"}

\* the datasets the pipeline may have produced
Derived == {DatasetBody("9", n \o s) : n \in UnifiedNames, s \in Suffixes}

\* what the dataset collection may hold when it is asked
DatasetLists ==
    {<<>>} \cup {<<DatasetBody("8", n)>> : n \in UnifiedNames}
          \cup {<<DatasetBody("8", "ud"), d>> : d \in Derived}

ConfigurationBodies == {[versionsTimeToLive |-> "P4D"], [versionsTimeToLive |-> "P7D"]}

EstimateBodies == {[isUpToDate |-> TRUE, totalEstimate |-> 10],
                   [isUpToDate |-> FALSE, totalEstimate |-> 0]}

(***************************************************************************)
(* The shared client: one exchange per request, and the categories a       *)
(* response falls into.                                                    *)
(***************************************************************************)
\* the server's possible answers to a request for one JSON object out of S
Answers(S) ==
    [kind : {"http"}, status : Statuses, body : S]
        \cup {[kind |-> "transport"], [kind |-> "http", status |-> 200, body |-> None]}

Exchange(method, path, payload, rsp) ==
    [method |-> method, path |-> path, payload |-> payload, rsp |-> rsp]

client_get(path, rsp) == Exchange("GET", path, None, rsp)

client_post(path, payload, rsp) == Exchange("POST", path, payload, rsp)

\* Response.successful(): the category of a response
successful(rsp) ==
    IF rsp.kind = "transport" THEN "TransportError"
    ELSE IF rsp.status >= 200 /\ rsp.status < 300 THEN "ok"
    ELSE IF rsp.status = 404 THEN "NotFound"
    ELSE IF rsp.status \in {401, 403} THEN "AuthError"
    ELSE "RequestFailed"

\* Response.successful().json(): "ok", or the failure that is raised
json(rsp) ==
    IF successful(rsp) # "ok" THEN successful(rsp)
    ELSE IF rsp.body = None THEN "MalformedResponse"
    ELSE "ok"

(***************************************************************************)
(* Resources: a path and, once resolved, a body.                           *)
(***************************************************************************)
Resource(cls, data, api_path) == [cls |-> cls, data |-> data, api_path |-> api_path]

from_json_at_relative_id(cls, resource_json, api_path) ==
    Resource(cls, resource_json, [p |-> resource_json.relativeId])

\* from_json(client, resource_json, api_path=None): a resolved resource; with
\* no path given it is addressed at the body's relativeId
from_json(cls, resource_json, api_path) ==
    Resource(cls, resource_json,
             IF api_path = None THEN [p |-> resource_json.relativeId] ELSE api_path)

Path(p) == [p |-> p]

\* AttributeConfiguration(client, data, alias): the constructor
AttributeConfiguration(data, alias) == Resource("AttributeConfiguration", data, Path(alias))

\* the result of a call: what it returned or raised, and the exchanges it made
Returned(ret, exchanges) ==
    [status |-> "returned", err |-> "none", ret |-> ret, reqs |-> exchanges]

Raised(err, exchanges) ==
    [status |-> "raised", err |-> err, ret |-> None, reqs |-> exchanges]

(***************************************************************************)
(* BaseCollection (modelled from the design document).                     *)
(***************************************************************************)
\* by_relative_id(resource_class, relative_id): an unresolved resource, no request
BaseCollection_by_relative_id(resource_class, relative_id) ==
    Returned(Resource(resource_class, None, Path(relative_id)), <<>>)

\* by_resource_id(canonical_path, resource_id): an eager GET of the composed path
BaseCollection_by_resource_id(resource_class, canonical_path, resource_id, rsp) ==
    LET path == canonical_path \o "/" \o resource_id
        x == client_get(path, rsp)
    IN IF json(rsp) # "ok" THEN Raised(json(rsp), <<x>>)
       ELSE Returned(from_json(resource_class, rsp.body, Path(path)), <<x>>)

(***************************************************************************)
(* AttributeConfigurationCollection.                                       *)
(***************************************************************************)
by_resource_id_stripped(resource_id, rsp) ==
    BaseCollection_by_resource_id("AttributeConfiguration",
        IF coll.api_path = "projects/1/attributeConfigurations/"
        THEN "projects/1/attributeConfigurations" ELSE coll.api_path,
        resource_id, rsp)

by_resource_id(resource_id, rsp) ==
    BaseCollection_by_resource_id("AttributeConfiguration", coll.api_path, resource_id, rsp)

by_relative_id_eager(relative_id, rsp) ==
    LET x == client_get(relative_id, rsp)
    IN IF json(rsp) # "ok" THEN Raised(json(rsp), <<x>>)
       ELSE Returned(from_json("AttributeConfiguration", rsp.body, Path(relative_id)), <<x>>)

\* rsp is not used: the lookup talks to no server
by_relative_id(relative_id, rsp) ==
    BaseCollection_by_relative_id("AttributeConfiguration", relative_id)

by_external_id_scan(external_id, rsp) ==
    LET x == client_get(coll.api_path, rsp)
    IN IF json(rsp) # "ok" THEN Raised(json(rsp), <<x>>) ELSE Raised("NotFound", <<x>>)

\* rsp is not used: the lookup talks to no server
by_external_id(external_id, rsp) == Raised("NotSupported", <<>>)

create_refetch(creation_spec, rsp) ==
    LET x == client_post(coll.api_path, creation_spec, rsp)
    IN IF json(rsp) # "ok" THEN Raised(json(rsp), <<x>>)
       ELSE Returned(from_json("AttributeConfiguration", rsp.body, None),
                     <<x, client_get(rsp.body.relativeId, rsp)>>)

create(creation_spec, rsp) ==
    LET x == client_post(coll.api_path, creation_spec, rsp)
    IN IF json(rsp) # "ok" THEN Raised(json(rsp), <<x>>)
       ELSE Returned(from_json("AttributeConfiguration", rsp.body, None), <<x>>)

(***************************************************************************)
(* BaseResource (modelled from the design document): field access on a     *)
(* resource that may be unresolved, and refresh.                            *)
(***************************************************************************)
\* the result of an access: the resource afterwards, the value, the exchanges
Accessed(r, value, exchanges) ==
    [status |-> "returned", err |-> "none", ret |-> r, value |-> value, reqs |-> exchanges]

AccessFailed(r, err, exchanges) ==
    [status |-> "raised", err |-> err, ret |-> r, value |-> None, reqs |-> exchanges]

\* field(name): from the cached body; an unresolved resource is fetched once and cached
field(r, name, rsp) ==
    IF r.data # None THEN Accessed(r, r.data[name], <<>>)
    ELSE LET x == client_get(r.api_path.p, rsp)
         IN IF json(rsp) # "ok" THEN AccessFailed(r, json(rsp), <<x>>)
            ELSE Accessed([r EXCEPT !.data = rsp.body], rsp.body[name], <<x>>)

\* refresh(): fetch again and replace the cached body
refresh(r, rsp) ==
    LET x == client_get(r.api_path.p, rsp)
    IN IF json(rsp) # "ok" THEN AccessFailed(r, json(rsp), <<x>>)
       ELSE Accessed([r EXCEPT !.data = rsp.body], None, <<x>>)

resource_eq_deep(a, b) == a.api_path = b.api_path /\ a.data = b.data

\* BaseResource.__eq__: two resources are compared by their relative paths
resource_eq(a, b) == a.api_path = b.api_path

(***************************************************************************)
(* Project.unified_dataset and DatasetCollection.by_name (modelled from    *)
(* the design document).                                                   *)
(***************************************************************************)
\* the server's answers to a lookup in the dataset collection: the datasets
\* that exist, or a failure
NameAnswers ==
    [kind : {"http"}, status : Statuses, body : DatasetLists]
        \cup {[kind |-> "transport"]}

\* Project.unified_dataset(): fetch the project's unified dataset
unified_dataset(rsp) ==
    LET path == proj.api_path \o "/unifiedDataset"
        x == client_get(path, rsp)
    IN IF json(rsp) # "ok" THEN Raised(json(rsp), <<x>>)
       ELSE Returned(from_json("Dataset", rsp.body, Path(path)), <<x>>)

\* DatasetCollection.by_name(name): the dataset with exactly this name
by_name(name, rsp) ==
    LET x == Exchange("GET", "datasets", [name |-> name], rsp)
        hits == IF successful(rsp) = "ok"
                THEN SelectSeq(rsp.body, LAMBDA d : d.name = name) ELSE <<>>
    IN IF successful(rsp) # "ok" THEN Raised(successful(rsp), <<x>>)
       ELSE IF hits = <<>> THEN Raised("NotFound", <<x>>)
       ELSE Returned(from_json("Dataset", hits[1], None), <<x>>)

(***************************************************************************)
(* MasteringProject.                                                       *)
(***************************************************************************)
named_sibling_retry(suffix, ud, ds) ==
    LET unified == unified_dataset(ud)
    IN IF unified.status = "raised" THEN unified
       ELSE LET name == unified.ret.data.name \o suffix
                dataset == by_name(name, ds)
                other == by_name(unified.ret.data.name, ds)
            IN IF dataset.status = "raised" /\ dataset.err = "NotFound"
               THEN [other EXCEPT !.reqs = unified.reqs \o dataset.reqs \o other.reqs]
               ELSE [dataset EXCEPT !.reqs = unified.reqs \o dataset.reqs]

\* what the five helpers share: fetch the unified dataset, derive the sibling's
\* name from its name with a fixed suffix, look that name up
named_sibling(suffix, ud, ds) ==
    LET unified == unified_dataset(ud)
    IN IF unified.status = "raised" THEN unified
       ELSE LET name == unified.ret.data.name \o suffix
                dataset == by_name(name, ds)
            IN [dataset EXCEPT !.reqs = unified.reqs \o dataset.reqs]

\* the dataset found under the derived name, addressed at alias
aliased(dataset, alias) ==
    IF dataset.status = "raised" THEN dataset
    ELSE Returned(from_json("Dataset", dataset.ret.data, Path(alias)), dataset.reqs)

published_clusters_stats_suffix(ud, ds) ==
    aliased(named_sibling("_dedup_published_cluster_stats", ud, ds),
            proj.api_path \o "/publishedClusters")

published_clusters(ud, ds) ==
    aliased(named_sibling("_dedup_published_clusters", ud, ds),
            proj.api_path \o "/publishedClusters")

published_cluster_ids(ud, ds) ==
    aliased(named_sibling("_dedup_all_persistent_ids", ud, ds),
            proj.api_path \o "/allPublishedClusterIds")

published_cluster_stats(ud, ds) ==
    aliased(named_sibling("_dedup_published_cluster_stats", ud, ds),
            proj.api_path \o "/publishedClusterStats")

record_clusters_with_data(ud, ds) ==
    named_sibling("_dedup_clusters_with_data", ud, ds)

published_clusters_with_data(ud, ds) ==
    named_sibling("_dedup_published_clusters_with_data", ud, ds)

published_clusters_configuration(rsp) ==
    LET alias == proj.api_path \o "/publishedClustersConfiguration"
        x == client_get(alias, rsp)
    IN IF json(rsp) # "ok" THEN Raised(json(rsp), <<x>>)
       ELSE Returned(from_json("PublishedClustersConfiguration", rsp.body, Path(alias)),
                     <<x>>)

estimate_pairs(rsp) ==
    LET alias == proj.api_path \o "/estimatedPairCounts"
        x == client_get(alias, rsp)
    IN IF json(rsp) # "ok" THEN Raised(json(rsp), <<x>>)
       ELSE Returned(from_json("EstimatedPairCounts", rsp.body, Path(alias)), <<x>>)

\* pairs: the record pairs, a dataset that is not fetched
pairs == Returned(Resource("Dataset", None, Path(proj.api_path \o "/recordPairs")), <<>>)

pair_matching_model ==
    Returned(Resource("MachineLearningModel", None,
                      Path(proj.api_path \o "/recordPairsWithPredictions/model")), <<>>)

high_impact_pairs ==
    Returned(Resource("Dataset", None, Path(proj.api_path \o "/highImpactPairs")), <<>>)

record_clusters_at_high_impact_pairs ==
    Returned(Resource("Dataset", None, Path(proj.api_path \o "/highImpactPairs")), <<>>)

record_clusters ==
    Returned(Resource("Dataset", None, Path(proj.api_path \o "/recordClusters")), <<>>)

\* binning_model: built from a body that holds the relativeId only
binning_model ==
    LET alias == proj.api_path \o "/binningModel"
        resource_json == [relativeId |-> alias]
    IN Returned(from_json("BinningModel", resource_json, Path(alias)), <<>>)

(***************************************************************************)
(* json.dumps of a string, and json.loads of a response line.  Text is a   *)
(* sequence of characters.                                                 *)
(***************************************************************************)
escape_char(c) ==
    IF c = "\"" THEN <<"\\", "\"">>
    ELSE IF c = "\\" THEN <<"\\", "\\">>
    ELSE IF c = "\n" THEN <<"\\", "n">>
    ELSE <<c>>

RECURSIVE escape(_)
escape(s) == IF s = <<>> THEN <<>> ELSE escape_char(Head(s)) \o escape(Tail(s))

\* json.dumps(i) for a string i
json_dumps(i) == <<"\"">> \o escape(i) \o <<"\"">>

RECURSIVE join(_, _)
\* sep.join(parts)
join(sep, parts) ==
    IF parts = <<>> THEN <<>>
    ELSE IF Len(parts) = 1 THEN parts[1]
    ELSE parts[1] \o sep \o join(sep, Tail(parts))

\* the ids a caller asks versions for: plain, and with every character that
\* json.dumps escapes
IdValues == {<<"a">>, <<"\"", "\n">>, <<"\\", "n">>}

\* the response lines the server may send
GoodLines == {"{\"id\":1}", "{ \"id\": 1 }", "{\"id\":2}"}

Lines == GoodLines \cup {""}

\* json.loads(line): the decoded object, or None where it raises
json_loads(line) ==
    IF line \in {"{\"id\":1}", "{ \"id\": 1 }"} THEN [id |-> 1]
    ELSE IF line = "{\"id\":2}" THEN [id |-> 2]
    ELSE None

(***************************************************************************)
(* MasteringProject._cluster_versions: a generator.  It is "created" until *)
(* the first pull, "suspended" at a yield, and then "finished" (the lines  *)
(* ran out), "failed" (it raised) or "closed" (disposed of).               *)
(***************************************************************************)
cluster_class(cls, data) == [cls |-> cls, data |-> data]

\* the generator object a call returns: nothing of its body has run
Generator(cluster_class_name, ids, endpoint) ==
    [state |-> "created", cls |-> cluster_class_name, ids |-> ids, endpoint |-> endpoint,
     rsp |-> None, pos |-> 0, yielded |-> <<>>, conn |-> "none", released |-> 0,
     err |-> "none", posts |-> <<>>]

release_on_exhaustion_only(g, how) ==
    IF how = "exhausted" THEN [g EXCEPT !.conn = "closed", !.released = @ + 1] ELSE g

\* leaving the with block (how: "exhausted", "raised" or "closed") closes the response
release(g, how) == [g EXCEPT !.conn = "closed", !.released = @ + 1]

RECURSIVE iter_lines_skip_undecodable(_)
iter_lines_skip_undecodable(g) ==
    IF g.pos = Len(g.rsp.lines)
    THEN IF g.rsp.broken
         THEN [release(g, "raised") EXCEPT !.state = "failed", !.err = "TransportError"]
         ELSE [release(g, "exhausted") EXCEPT !.state = "finished", !.err = "StopIteration"]
    ELSE LET line == g.rsp.lines[g.pos + 1]
         IN IF json_loads(line) = None
            THEN iter_lines_skip_undecodable([g EXCEPT !.pos = @ + 1])
            ELSE [g EXCEPT !.state = "suspended", !.pos = @ + 1, !.err = "none",
                           !.yielded = Append(@, cluster_class(g.cls, json_loads(line)))]

\* the for loop over response.iter_lines(), from the line after g.pos to the
\* next yield or to the end of the generator
iter_lines(g) ==
    IF g.pos = Len(g.rsp.lines)
    THEN IF g.rsp.broken
         THEN [release(g, "raised") EXCEPT !.state = "failed", !.err = "TransportError"]
         ELSE [release(g, "exhausted") EXCEPT !.state = "finished", !.err = "StopIteration"]
    ELSE LET line == g.rsp.lines[g.pos + 1]
         IN IF json_loads(line) = None
            THEN [release(g, "raised") EXCEPT !.state = "failed",
                                               !.err = "MalformedResponse"]
            ELSE [g EXCEPT !.state = "suspended", !.pos = @ + 1, !.err = "none",
                           !.yielded = Append(@, cluster_class(g.cls, json_loads(line)))]

first_pull_raw(g, rsp) ==
    LET string_ids == join(<<"\n">>, g.ids)
        x == client_post(g.endpoint, string_ids, rsp)
    IN IF rsp.kind = "transport"
       THEN [g EXCEPT !.state = "failed", !.err = "TransportError", !.posts = <<x>>]
       ELSE iter_lines([g EXCEPT !.rsp = rsp, !.conn = "open", !.posts = <<x>>])

\* the first pull: the ids are encoded, the request is posted, the loop starts
first_pull(g, rsp) ==
    LET string_ids == join(<<"\n">>, [k \in 1..Len(g.ids) |-> json_dumps(g.ids[k])])
        x == client_post(g.endpoint, string_ids, rsp)
    IN IF rsp.kind = "transport"
       THEN [g EXCEPT !.state = "failed", !.err = "TransportError", !.posts = <<x>>]
       ELSE iter_lines([g EXCEPT !.rsp = rsp, !.conn = "open", !.posts = <<x>>])

\* next(generator)
pull(g, rsp) ==
    IF g.state = "created" THEN first_pull(g, rsp)
    ELSE IF g.state = "suspended" THEN iter_lines(g)
    ELSE [g EXCEPT !.err = "StopIteration"]

\* generator.close(), also what disposing of the generator does
close(g) ==
    IF g.state = "created" THEN [g EXCEPT !.state = "closed"]
    ELSE IF g.state = "suspended"
    THEN [release(g, "closed") EXCEPT !.state = "closed", !.err = "none"]
    ELSE g

_cluster_versions_eager(cluster_class_name, ids, endpoint) ==
    first_pull(Generator(cluster_class_name, ids, endpoint),
               [kind |-> "http", status |-> 200, lines |-> <<>>, broken |-> FALSE])

\* a generator function: calling it runs none of its body
_cluster_versions(cluster_class_name, ids, endpoint) ==
    Generator(cluster_class_name, ids, endpoint)

published_cluster_versions(cluster_ids) ==
    _cluster_versions("PublishedCluster", cluster_ids,
                      proj.api_path \o "/publishedClusterVersions")

record_published_cluster_versions(record_ids) ==
    _cluster_versions("RecordPublishedCluster", record_ids,
                      proj.api_path \o "/recordPublishedClusterVersions")

(***************************************************************************)
(* BaseCollection.stream (modelled from the design document): a generator  *)
(* over the pages of the collection.  The cursor is an offset; a pull      *)
(* yields the next entry of the page at hand, or fetches the next page     *)
(* first; the empty page ends the enumeration.                             *)
(***************************************************************************)
Min(a, b) == IF a < b THEN a ELSE b

\* the page the server serves at an offset
ServePage(backing, offset, size) ==
    IF offset >= Len(backing) THEN <<>>
    ELSE SubSeq(backing, offset + 1, Min(offset + size, Len(backing)))

\* how the server answers a page request: with the page, or with a failure
PageAnswers(page) ==
    {[kind |-> "http", status |-> 200, body |-> page], [kind |-> "transport"]}
        \cup [kind : {"http"}, status : Statuses \ {200, 204}, body : {<<>>}]

PageStream(resource_class, api_path) ==
    [state |-> "created", cls |-> resource_class, api_path |-> api_path, offset |-> 0,
     buffer |-> <<>>, yielded |-> <<>>, err |-> "none", gets |-> <<>>]

BaseCollection_stream(resource_class, api_path) == PageStream(resource_class, api_path)

\* next(generator); rsp answers the page request, if one is made
BaseCollection_stream_pull(g, rsp) ==
    IF g.state \notin {"created", "suspended"} THEN [g EXCEPT !.err = "StopIteration"]
    ELSE IF g.buffer # <<>>
    THEN [g EXCEPT !.state = "suspended", !.buffer = Tail(@), !.err = "none",
                   !.yielded = Append(@, from_json(g.cls, Head(g.buffer), None))]
    ELSE LET x == Exchange("GET", g.api_path, [offset |-> g.offset], rsp)
         IN IF successful(rsp) # "ok"
            THEN [g EXCEPT !.state = "failed", !.err = successful(rsp),
                           !.gets = Append(@, x)]
            ELSE IF rsp.body = <<>>
            THEN [g EXCEPT !.state = "finished", !.err = "StopIteration",
                           !.gets = Append(@, x)]
            ELSE [g EXCEPT !.state = "suspended", !.err = "none",
                           !.offset = @ + Len(rsp.body),
                           !.buffer = Tail(rsp.body),
                           !.gets = Append(@, x),
                           !.yielded = Append(@, from_json(g.cls, Head(rsp.body), None))]

\* generator.close()
BaseCollection_stream_close(g) ==
    IF g.state \in {"created", "suspended"} THEN [g EXCEPT !.state = "closed"] ELSE g

stream_of_datasets == BaseCollection_stream("Dataset", coll.api_path)

stream_cached ==
    IF sgen.state = "none" THEN BaseCollection_stream("AttributeConfiguration", coll.api_path)
    ELSE sgen

\* AttributeConfigurationCollection.stream
stream == BaseCollection_stream("AttributeConfiguration", coll.api_path)

(***************************************************************************)
(* State.                                                                  *)
(***************************************************************************)
NoCall == [op |-> "none", arg |-> None, status |-> "none", err |-> "none"]

NoGen == [state |-> "none"]

Project1 == [api_path |-> "projects/1", unifiedDatasetName |-> "project 1 unified dataset"]

\* the server side of the attribute-configuration collection: its entries and
\* the size of the pages it serves
NoServer == [backing |-> <<>>, page |-> 1, mutated |-> FALSE]

Init ==
    /\ coll \in [api_path : CollPaths]
    /\ proj = Project1
    /\ call = NoCall
    /\ reqs = <<>>
    /\ res = None
    /\ vgen = NoGen
    /\ sgen = NoGen
    /\ server = NoServer

Live(g) == g.state \in {"created", "suspended"}

\* the states of a generator that has ended: it ran out, it raised, it was closed
Ended == {"finished", "failed", "closed"}

\* the caller makes one call at a time: a call starts when the caller is done
\* with the call before it
Idle == call.op = "none"

\* the record of a call that ran to its end in one step with result r
Done(op, arg, r) == [op |-> op, arg |-> arg, status |-> r.status, err |-> r.err]

ByResourceId ==
    /\ Idle
    /\ \E resource_id \in ResourceIds, rsp \in Answers(ACBodies) :
        LET r == by_resource_id(resource_id, rsp)
        IN /\ call' = Done("by_resource_id", resource_id, r)
           /\ reqs' = r.reqs
           /\ res' = r.ret
           /\ vgen' = NoGen
           /\ sgen' = NoGen
           /\ server' = NoServer
           /\ UNCHANGED <<coll, proj>>

ByRelativeId ==
    /\ Idle
    /\ \E relative_id \in RelativeIds, rsp \in Answers(ACBodies) :
        LET r == by_relative_id(relative_id, rsp)
        IN /\ call' = Done("by_relative_id", relative_id, r)
           /\ reqs' = r.reqs
           /\ res' = r.ret
           /\ vgen' = NoGen
           /\ sgen' = NoGen
           /\ server' = NoServer
           /\ UNCHANGED <<coll, proj>>

ByExternalId ==
    /\ Idle
    /\ \E external_id \in ExternalIds, rsp \in Answers(ACBodies) :
        LET r == by_external_id(external_id, rsp)
        IN /\ call' = Done("by_external_id", external_id, r)
           /\ reqs' = r.reqs
           /\ res' = r.ret
           /\ vgen' = NoGen
           /\ sgen' = NoGen
           /\ server' = NoServer
           /\ UNCHANGED <<coll, proj>>

Create ==
    /\ Idle
    /\ \E creation_spec \in CreationSpecs, rsp \in Answers(ACBodies) :
        LET r == create(creation_spec, rsp)
        IN /\ call' = Done("create", creation_spec, r)
           /\ reqs' = r.reqs
           /\ res' = r.ret
           /\ vgen' = NoGen
           /\ sgen' = NoGen
           /\ server' = NoServer
           /\ UNCHANGED <<coll, proj>>

\* a field of the resource the last call returned is read
\* the caller builds an attribute configuration from a body and a path, by the
\* constructor or by from_json
Construct ==
    /\ Idle
    /\ \E b \in ACBodies, p \in RelativeIds \cup {"projects/1/attributeConfigurations//1"} :
        /\ \/ /\ call' = [op |-> "AttributeConfiguration", arg |-> [b |-> b, p |-> p],
                           status |-> "returned", err |-> "none"]
              /\ res' = AttributeConfiguration(b, p)
           \/ /\ call' = [op |-> "from_json", arg |-> [b |-> b, p |-> p],
                           status |-> "returned", err |-> "none"]
              /\ res' = from_json("AttributeConfiguration", b, Path(p))
        /\ reqs' = <<>>
        /\ vgen' = NoGen
        /\ sgen' = NoGen
        /\ server' = NoServer
        /\ UNCHANGED <<coll, proj>>

FieldAccess ==
    /\ res # None
    /\ res.cls = "AttributeConfiguration"
    /\ \E name \in ACFields, rsp \in Answers(ACBodies) :
        LET r == field(res, name, rsp)
        IN /\ call' = [op |-> "field", arg |-> name, status |-> r.status, err |-> r.err,
                       value |-> r.value]
           /\ reqs' = r.reqs
           /\ res' = r.ret
           /\ vgen' = NoGen
           /\ sgen' = NoGen
           /\ server' = NoServer
           /\ UNCHANGED <<coll, proj>>

Refresh ==
    /\ res # None
    /\ res.cls = "AttributeConfiguration"
    /\ \E rsp \in Answers(ACBodies) :
        LET r == refresh(res, rsp)
        IN /\ call' = Done("refresh", None, r)
           /\ reqs' = r.reqs
           /\ res' = r.ret
           /\ vgen' = NoGen
           /\ sgen' = NoGen
           /\ server' = NoServer
           /\ UNCHANGED <<coll, proj>>

PublishedClusters ==
    /\ Idle
    /\ \E ud \in Answers(UnifiedDatasets), ds \in NameAnswers :
        LET r == published_clusters(ud, ds)
        IN /\ call' = Done("published_clusters", None, r)
           /\ reqs' = r.reqs
           /\ res' = r.ret
           /\ vgen' = NoGen
           /\ sgen' = NoGen
           /\ server' = NoServer
           /\ UNCHANGED <<coll, proj>>

PublishedClusterIds ==
    /\ Idle
    /\ \E ud \in Answers(UnifiedDatasets), ds \in NameAnswers :
        LET r == published_cluster_ids(ud, ds)
        IN /\ call' = Done("published_cluster_ids", None, r)
           /\ reqs' = r.reqs
           /\ res' = r.ret
           /\ vgen' = NoGen
           /\ sgen' = NoGen
           /\ server' = NoServer
           /\ UNCHANGED <<coll, proj>>

PublishedClusterStats ==
    /\ Idle
    /\ \E ud \in Answers(UnifiedDatasets), ds \in NameAnswers :
        LET r == published_cluster_stats(ud, ds)
        IN /\ call' = Done("published_cluster_stats", None, r)
           /\ reqs' = r.reqs
           /\ res' = r.ret
           /\ vgen' = NoGen
           /\ sgen' = NoGen
           /\ server' = NoServer
           /\ UNCHANGED <<coll, proj>>

RecordClustersWithData ==
    /\ Idle
    /\ \E ud \in Answers(UnifiedDatasets), ds \in NameAnswers :
        LET r == record_clusters_with_data(ud, ds)
        IN /\ call' = Done("record_clusters_with_data", None, r)
           /\ reqs' = r.reqs
           /\ res' = r.ret
           /\ vgen' = NoGen
           /\ sgen' = NoGen
           /\ server' = NoServer
           /\ UNCHANGED <<coll, proj>>

PublishedClustersWithData ==
    /\ Idle
    /\ \E ud \in Answers(UnifiedDatasets), ds \in NameAnswers :
        LET r == published_clusters_with_data(ud, ds)
        IN /\ call' = Done("published_clusters_with_data", None, r)
           /\ reqs' = r.reqs
           /\ res' = r.ret
           /\ vgen' = NoGen
           /\ sgen' = NoGen
           /\ server' = NoServer
           /\ UNCHANGED <<coll, proj>>

PublishedClustersConfiguration ==
    /\ Idle
    /\ \E rsp \in Answers(ConfigurationBodies) :
        LET r == published_clusters_configuration(rsp)
        IN /\ call' = Done("published_clusters_configuration", None, r)
           /\ reqs' = r.reqs
           /\ res' = r.ret
           /\ vgen' = NoGen
           /\ sgen' = NoGen
           /\ server' = NoServer
           /\ UNCHANGED <<coll, proj>>

EstimatePairs ==
    /\ Idle
    /\ \E rsp \in Answers(EstimateBodies) :
        LET r == estimate_pairs(rsp)
        IN /\ call' = Done("estimate_pairs", None, r)
           /\ reqs' = r.reqs
           /\ res' = r.ret
           /\ vgen' = NoGen
           /\ sgen' = NoGen
           /\ server' = NoServer
           /\ UNCHANGED <<coll, proj>>

\* the sequences of ids a caller asks versions for
Pairs ==
    /\ Idle
    /\ LET r == pairs
       IN /\ call' = Done("pairs", None, r)
          /\ reqs' = r.reqs
          /\ res' = r.ret
          /\ vgen' = NoGen
          /\ sgen' = NoGen
          /\ server' = NoServer
          /\ UNCHANGED <<coll, proj>>

PairMatchingModel ==
    /\ Idle
    /\ LET r == pair_matching_model
       IN /\ call' = Done("pair_matching_model", None, r)
          /\ reqs' = r.reqs
          /\ res' = r.ret
          /\ vgen' = NoGen
          /\ sgen' = NoGen
          /\ server' = NoServer
          /\ UNCHANGED <<coll, proj>>

HighImpactPairs ==
    /\ Idle
    /\ LET r == high_impact_pairs
       IN /\ call' = Done("high_impact_pairs", None, r)
          /\ reqs' = r.reqs
          /\ res' = r.ret
          /\ vgen' = NoGen
          /\ sgen' = NoGen
          /\ server' = NoServer
          /\ UNCHANGED <<coll, proj>>

RecordClusters ==
    /\ Idle
    /\ LET r == record_clusters
       IN /\ call' = Done("record_clusters", None, r)
          /\ reqs' = r.reqs
          /\ res' = r.ret
          /\ vgen' = NoGen
          /\ sgen' = NoGen
          /\ server' = NoServer
          /\ UNCHANGED <<coll, proj>>

BinningModel ==
    /\ Idle
    /\ LET r == binning_model
       IN /\ call' = Done("binning_model", None, r)
          /\ reqs' = r.reqs
          /\ res' = r.ret
          /\ vgen' = NoGen
          /\ sgen' = NoGen
          /\ server' = NoServer
          /\ UNCHANGED <<coll, proj>>

\* the operations that return a cluster-version stream; the caller may call
\* one again, with the same ids, when the stream of the call before has ended
VersionsOps == {"published_cluster_versions", "record_published_cluster_versions"}

IdSeqs == UNION {[1..n -> IdValues] : n \in 0..MaxIds}

\* what the server sends on a cluster-version request: a status, the lines,
\* and whether the connection breaks after them
LineSeqs == UNION {[1..n -> Lines] : n \in 0..MaxLines}

StreamAnswers ==
    [kind : {"http"}, status : Statuses, lines : LineSeqs, broken : BOOLEAN]
        \cup {[kind |-> "transport"]}

PublishedClusterVersions ==
    /\ Idle \/ (call.op = "published_cluster_versions" /\ vgen.state \in Ended)
    /\ \E cluster_ids \in (IF Idle THEN IdSeqs ELSE {call.arg}) :
        /\ call' = [op |-> "published_cluster_versions", arg |-> cluster_ids,
                    status |-> "returned", err |-> "none"]
        /\ vgen' = published_cluster_versions(cluster_ids)
        /\ reqs' = vgen'.posts
        /\ res' = None
        /\ sgen' = NoGen
        /\ server' = NoServer
        /\ UNCHANGED <<coll, proj>>

RecordPublishedClusterVersions ==
    /\ Idle \/ (call.op = "record_published_cluster_versions" /\ vgen.state \in Ended)
    /\ \E record_ids \in (IF Idle THEN IdSeqs ELSE {call.arg}) :
        /\ call' = [op |-> "record_published_cluster_versions", arg |-> record_ids,
                    status |-> "returned", err |-> "none"]
        /\ vgen' = record_published_cluster_versions(record_ids)
        /\ reqs' = vgen'.posts
        /\ res' = None
        /\ sgen' = NoGen
        /\ server' = NoServer
        /\ UNCHANGED <<coll, proj>>

\* the caller pulls the next element of the cluster-version stream
VersionsPull ==
    /\ vgen.state # "none"
    /\ \E rsp \in (IF vgen.state = "created" THEN StreamAnswers ELSE {None}) :
        /\ vgen' = pull(vgen, rsp)
        /\ reqs' = vgen'.posts
    /\ UNCHANGED <<coll, proj, call, res, sgen, server>>

\* the caller abandons the cluster-version stream
VersionsClose ==
    /\ vgen.state # "none"
    /\ vgen' = close(vgen)
    /\ UNCHANGED <<coll, proj, call, reqs, res, sgen, server>>

\* the collections the server may hold
Backings == UNION {[1..n -> ACBodies] : n \in 0..MaxEntries}

Stream ==
    /\ Idle
    /\ \E backing \in Backings, page \in 1..MaxPage :
        /\ call' = [op |-> "stream", arg |-> None, status |-> "returned", err |-> "none",
                    after |-> "none"]
        /\ sgen' = stream
        /\ server' = [backing |-> backing, page |-> page, mutated |-> FALSE]
        /\ reqs' = <<>>
        /\ res' = None
        /\ vgen' = NoGen
        /\ UNCHANGED <<coll, proj>>

\* the caller calls stream() again when the stream of the call before has
\* ended (`after` tells how); the collection is what it has become by then
StreamAgain ==
    /\ call.op = "stream"
    /\ sgen.state \in Ended
    /\ call' = [op |-> "stream", arg |-> None, status |-> "returned", err |-> "none",
                after |-> sgen.state]
    /\ sgen' = stream
    /\ server' = [server EXCEPT !.mutated = FALSE]
    /\ reqs' = <<>>
    /\ res' = None
    /\ vgen' = NoGen
    /\ UNCHANGED <<coll, proj>>

\* the caller pulls the next element of the collection stream
StreamPull ==
    /\ sgen.state # "none"
    /\ \E rsp \in PageAnswers(ServePage(server.backing, sgen.offset, server.page)) :
        /\ sgen' = BaseCollection_stream_pull(sgen, rsp)
        /\ reqs' = sgen'.gets
    /\ UNCHANGED <<coll, proj, call, res, vgen, server>>

\* the caller abandons the collection stream
StreamClose ==
    /\ sgen.state # "none"
    /\ sgen' = BaseCollection_stream_close(sgen)
    /\ UNCHANGED <<coll, proj, call, reqs, res, vgen, server>>

\* somebody else changes the backing collection while it is being streamed
\* for the first time: the first entry is deleted, or an entry is added in front
Mutate ==
    /\ Live(sgen)
    /\ call.after = "none"
    /\ \E backing \in {Tail(server.backing) : x \in {1} \cap (1..Len(server.backing))}
            \cup {<<b>> \o server.backing : b \in {c \in ACBodies : Len(server.backing) < MaxEntries}} :
        server' = [server EXCEPT !.backing = backing, !.mutated = TRUE]
    /\ UNCHANGED <<coll, proj, call, reqs, res, vgen, sgen>>

\* the caller is done with the last call: it lets go of what the call returned;
\* a stream it lets go of has ended or has been closed
Discard ==
    /\ ~Idle
    /\ ~Live(vgen)
    /\ ~Live(sgen)
    /\ call' = NoCall
    /\ reqs' = <<>>
    /\ res' = None
    /\ vgen' = NoGen
    /\ sgen' = NoGen
    /\ server' = NoServer
    /\ UNCHANGED <<coll, proj>>

Next ==
    \/ ByResourceId
    \/ ByRelativeId
    \/ ByExternalId
    \/ Create
    \/ Construct
    \/ FieldAccess
    \/ Refresh
    \/ Stream
    \/ StreamAgain
    \/ StreamPull
    \/ StreamClose
    \/ Mutate
    \/ PublishedClusters
    \/ PublishedClusterIds
    \/ PublishedClusterStats
    \/ RecordClustersWithData
    \/ PublishedClustersWithData
    \/ PublishedClustersConfiguration
    \/ EstimatePairs
    \/ Pairs
    \/ PairMatchingModel
    \/ HighImpactPairs
    \/ RecordClusters
    \/ BinningModel
    \/ PublishedClusterVersions
    \/ RecordPublishedClusterVersions
    \/ VersionsPull
    \/ VersionsClose
    \/ Discard

Spec == Init /\ [][Next]_vars

(***************************************************************************)
(* Equality of resources, a pure function of two resources: the left one   *)
(* is res, the right one is the argument of the comparison.                *)
(***************************************************************************)
\* paths resources are held at: the relative ids, and the path that
\* by_resource_id composes on a collection constructed with a trailing slash
EqPaths == RelativeIds \cup {"projects/1/attributeConfigurations//1"}

\* resolved and unresolved attribute configurations
EqResources ==
    {Resource("AttributeConfiguration", d, Path(p)) : d \in ACBodies \cup {None}, p \in EqPaths}

InitEq ==
    /\ coll \in [api_path : CollPaths]
    /\ proj = Project1
    /\ call = NoCall
    /\ reqs = <<>>
    /\ res \in EqResources
    /\ vgen = NoGen
    /\ sgen = NoGen
    /\ server = NoServer

\* res == other
Equals ==
    \E other \in EqResources :
        /\ Idle
        /\ call' = [op |-> "__eq__", arg |-> other, status |-> "returned", err |-> "none",
                    value |-> resource_eq(res, other)]
        /\ UNCHANGED <<coll, proj, reqs, res, vgen, sgen, server>>

NextEq == Equals

SpecEq == InitEq /\ [][NextEq]_vars

(***************************************************************************)
(* The claims.                                                             *)
(***************************************************************************)
\* the accessor relative_id of a resolved resource
relative_id(r) == r.data.relativeId

IsGet(x, path) == x.method = "GET" /\ x.path = path /\ x.payload = None

Ok(x) == x.rsp.kind = "http" /\ x.rsp.status \in {200, 204}

\* C1: by_external_id raises NotSupported for every external id, whatever the
\* collection is, and issues no request before it does
C1_ByExternalIdNotSupported ==
    call.op = "by_external_id" =>
        /\ call.status = "raised"
        /\ call.err = "NotSupported"
        /\ reqs = <<>>
        /\ res = None

C1_Witness ==
    /\ call.op = "by_external_id"
    /\ call.arg = "ext-1"
    /\ call.err = "NotSupported"
    /\ coll.api_path = "projects/1/attributeConfigurations/"

\* C2: a cluster-version stream that opened its connection holds it open only
\* while the iteration is under way, and releases it exactly once however the
\* iteration ends: the lines ran out, the caller abandoned the stream, or a
\* line failed to decode or to be read
C2_ReleasedExactlyOnce ==
    vgen.state # "none" =>
        /\ vgen.released <= 1
        /\ vgen.conn = "open" <=> vgen.state = "suspended"
        /\ vgen.conn = "none" <=> vgen.rsp = None
        /\ vgen.rsp # None /\ vgen.state \in {"finished", "failed", "closed"} =>
               vgen.conn = "closed" /\ vgen.released = 1

\* abandoned early: one element taken of two lines, then the stream is closed
C2_Witness ==
    /\ vgen.state = "closed"
    /\ vgen.rsp # None
    /\ Len(vgen.yielded) = 1
    /\ Len(vgen.rsp.lines) = 2
    /\ vgen.released = 1

RECURSIVE SplitLines(_, _)
\* the lines of a text: cur is the line being read
SplitLines(text, cur) ==
    IF text = <<>> THEN (IF cur = <<>> THEN <<>> ELSE <<cur>>)
    ELSE IF Head(text) = "\n" THEN <<cur>> \o SplitLines(Tail(text), <<>>)
    ELSE SplitLines(Tail(text), Append(cur, Head(text)))

RECURSIVE Unescape(_)
\* the characters a JSON string's inside stands for; "?" marks what no JSON
\* string may hold
Unescape(s) ==
    IF s = <<>> THEN <<>>
    ELSE IF Head(s) = "\\"
    THEN IF Len(s) < 2 THEN <<"?">>
         ELSE (IF s[2] = "n" THEN <<"\n">>
               ELSE IF s[2] \in {"\"", "\\"} THEN <<s[2]>>
               ELSE <<"?">>) \o Unescape(Tail(Tail(s)))
    ELSE IF Head(s) \in {"\"", "\n"} THEN <<"?">> \o Unescape(Tail(s))
    ELSE <<Head(s)>> \o Unescape(Tail(s))

\* the string a line of the request body encodes
DecodeString(line) ==
    IF Len(line) >= 2 /\ line[1] = "\"" /\ line[Len(line)] = "\""
    THEN Unescape(SubSeq(line, 2, Len(line) - 1))
    ELSE <<"?">>

VersionsEndpoint ==
    proj.api_path \o (IF call.op = "published_cluster_versions"
                      THEN "/publishedClusterVersions"
                      ELSE "/recordPublishedClusterVersions")

VersionsClass ==
    IF call.op = "published_cluster_versions" THEN "PublishedCluster"
    ELSE "RecordPublishedCluster"

\* C3: a cluster-version stream consumed to its end has issued exactly one
\* POST to the endpoint of the operation, whose body holds one line per id, the
\* JSON encoding of that id, in input order (nothing for no ids), and has
\* yielded one cluster of the operation's class per response line, in line order
C3_OnePostOneClusterPerLine ==
    vgen.state = "finished" =>
        /\ Len(reqs) = 1
        /\ reqs[1].method = "POST"
        /\ reqs[1].path = VersionsEndpoint
        /\ Len(SplitLines(reqs[1].payload, <<>>)) = Len(call.arg)
        /\ \A k \in 1..Len(call.arg) :
               DecodeString(SplitLines(reqs[1].payload, <<>>)[k]) = call.arg[k]
        /\ Len(vgen.yielded) = Len(reqs[1].rsp.lines)
        /\ \A k \in 1..Len(vgen.yielded) :
               /\ vgen.yielded[k].cls = VersionsClass
               /\ vgen.yielded[k].data = json_loads(reqs[1].rsp.lines[k])
               /\ vgen.yielded[k].data # None

\* two ids, one with a quote and a newline in it, and two lines consumed
C3_Witness ==
    /\ vgen.state = "finished"
    /\ call.op = "published_cluster_versions"
    /\ call.arg = <<<<"a">>, <<"\"", "\n">>>>
    /\ Len(vgen.yielded) = 2
    /\ vgen.yielded[1].data # vgen.yielded[2].data

\* C4: published_clusters first fetches the unified dataset, then looks up the
\* dataset named as the unified dataset with "_dedup_published_clusters"
\* appended, and returns a Dataset with the body of the dataset of that name,
\* addressed at the project's path with "/publishedClusters" appended
C4_PublishedClusters ==
    call.op = "published_clusters" =>
        /\ Len(reqs) \in {1, 2}
        /\ IsGet(reqs[1], proj.api_path \o "/unifiedDataset")
        /\ Len(reqs) = 2 =>
               /\ Ok(reqs[1])
               /\ reqs[2].path = "datasets"
               /\ reqs[2].payload.name = reqs[1].rsp.body.name \o "_dedup_published_clusters"
        /\ call.status = "returned" =>
               /\ Len(reqs) = 2
               /\ res.cls = "Dataset"
               /\ res.api_path = Path(proj.api_path \o "/publishedClusters")
               /\ res.data.name = reqs[1].rsp.body.name \o "_dedup_published_clusters"
               /\ \E k \in 1..Len(reqs[2].rsp.body) : reqs[2].rsp.body[k] = res.data

C4_Witness ==
    /\ call.op = "published_clusters"
    /\ call.status = "returned"
    /\ res.data.name = "ud_dedup_published_clusters"
    /\ res.api_path.p = "projects/1/publishedClusters"

\* C5: create issues exactly one request, a POST of the creation spec to the
\* path of the collection, and when the server answers it with a JSON object
\* and a 2xx status, returns a resolved AttributeConfiguration whose
\* relative_id is the relativeId of that object
C5_Create ==
    call.op = "create" =>
        /\ Len(reqs) = 1
        /\ reqs[1].method = "POST"
        /\ reqs[1].path = coll.api_path
        /\ reqs[1].payload = call.arg
        /\ Ok(reqs[1]) /\ reqs[1].rsp.body # None =>
               /\ call.status = "returned"
               /\ res.cls = "AttributeConfiguration"
               /\ res.data = reqs[1].rsp.body
               /\ relative_id(res) = reqs[1].rsp.body.relativeId
               /\ res.api_path = Path(reqs[1].rsp.body.relativeId)
        /\ call.status = "returned" => Ok(reqs[1])

\* the answer of test_create: status 204 and the created object
C5_Witness ==
    /\ call.op = "create"
    /\ call.status = "returned"
    /\ reqs[1].rsp.status = 204
    /\ relative_id(res) = "projects/1/attributeConfigurations/35"

\* a field of the resource at hand is read in this step
FieldIsRead == res # None /\ call'.op = "field"

\* C6: by_relative_id issues no request and returns an unresolved resource at
\* the path given; reading a field of an unresolved resource issues exactly one
\* request, a GET of its path, and caches the body when it succeeds; reading a
\* field of a resource with a cached body issues no request and leaves the
\* body as it is (only refresh fetches again)
C6_LazyFetchOnce ==
    /\ [](call.op = "by_relative_id" =>
              /\ reqs = <<>>
              /\ call.status = "returned"
              /\ res = Resource("AttributeConfiguration", None, Path(call.arg)))
    /\ [][FieldIsRead /\ res.data = None =>
              /\ Len(reqs') = 1
              /\ IsGet(reqs'[1], res.api_path.p)
              /\ res'.api_path = res.api_path
              /\ call'.status = "returned" =>
                     res'.data = reqs'[1].rsp.body /\ call'.value = res'.data[call'.arg]
              /\ call'.status = "raised" => res' = res]_vars
    /\ [][FieldIsRead /\ res.data # None =>
              /\ reqs' = <<>>
              /\ res' = res
              /\ call'.status = "returned"
              /\ call'.value = res.data[call'.arg]]_vars

\* the first read of a field of a resource that by_relative_id returned: only
\* an unresolved resource makes a field access fetch
C6_Witness ==
    /\ call.op = "field"
    /\ call.status = "returned"
    /\ Len(reqs) = 1
    /\ reqs[1].path = "projects/1/attributeConfigurations/1"
    /\ res.data # None

Category(status) ==
    IF status = 404 THEN "NotFound"
    ELSE IF status \in {401, 403} THEN "AuthError"
    ELSE "RequestFailed"

\* C8: whenever the server answers a request of create,
\* published_clusters_configuration, estimate_pairs or of a cluster-version
\* stream with a status that is no 2xx, the caller gets the failure of the
\* status's category, no resource is returned and no element is yielded
C8_ErrorStatusSurfaces ==
    /\ /\ call.op \in {"create", "published_clusters_configuration", "estimate_pairs"}
       /\ Len(reqs) = 1
       /\ reqs[1].rsp.kind = "http"
       /\ ~Ok(reqs[1])
       => /\ call.status = "raised"
          /\ call.err = Category(reqs[1].rsp.status)
          /\ res = None
    /\ /\ vgen.state \notin {"none", "created"}
       /\ vgen.rsp # None
       /\ vgen.rsp.status \notin {200, 204}
       => /\ vgen.yielded = <<>>
          /\ vgen.state = "failed"
          /\ vgen.err = Category(vgen.rsp.status)

\* the suffix each derived-name helper appends
HelperSuffix ==
    [published_clusters |-> "_dedup_published_clusters",
     published_cluster_ids |-> "_dedup_all_persistent_ids",
     published_cluster_stats |-> "_dedup_published_cluster_stats",
     record_clusters_with_data |-> "_dedup_clusters_with_data",
     published_clusters_with_data |-> "_dedup_published_clusters_with_data"]

\* the name lookups among the requests
Lookups == SelectSeq(reqs, LAMBDA x : x.path = "datasets")

\* C9: a derived-name helper makes at most one name lookup, of the name it
\* derives, and when the dataset collection answers and holds no dataset of
\* that name, the helper has made exactly that one lookup, fails with NotFound
\* and returns no Dataset
C9_DerivedNameNotFound ==
    call.op \in DOMAIN HelperSuffix =>
        /\ Len(Lookups) <= 1
        /\ Len(reqs) <= 2
        /\ Len(reqs) = 2 =>
               LET name == reqs[1].rsp.body.name \o HelperSuffix[call.op]
               IN /\ Lookups = <<reqs[2]>>
                  /\ reqs[2].payload.name = name
                  /\ /\ Ok(reqs[2])
                     /\ \A k \in 1..Len(reqs[2].rsp.body) : reqs[2].rsp.body[k].name # name
                     => /\ call.status = "raised"
                        /\ call.err = "NotFound"
                        /\ res = None

\* the pipeline has produced another dataset, not the one the helper derives
C9_Witness ==
    /\ call.op = "record_clusters_with_data"
    /\ call.err = "NotFound"
    /\ Len(reqs) = 2
    /\ Ok(reqs[2])
    /\ Len(reqs[2].rsp.body) = 2
    /\ reqs[2].rsp.body[2].name = "ud_dedup_published_clusters_with_data"

\* the pages a collection of n entries is served in, size entries to a page
Pages(n, size) == (n + size - 1) \div size

\* C10: while the backing collection is not changed, stream() yields its
\* entries in the server's order, each once and as an AttributeConfiguration,
\* and it ends, at the first empty page, when all N have been yielded, after P
\* pages with entries
C10_StreamYieldsAll ==
    sgen.state # "none" /\ ~server.mutated =>
        /\ Len(sgen.yielded) <= Len(server.backing)
        /\ \A k \in 1..Len(sgen.yielded) :
               /\ sgen.yielded[k].cls = "AttributeConfiguration"
               /\ sgen.yielded[k].data = server.backing[k]
        /\ sgen.state = "finished" =>
               /\ Len(sgen.yielded) = Len(server.backing)
               /\ Len(reqs) = Pages(Len(server.backing), server.page) + 1
               /\ reqs[Len(reqs)].rsp.body = <<>>
               /\ \A k \in 1..(Len(reqs) - 1) : reqs[k].rsp.body # <<>>
        /\ Len(sgen.yielded) = Len(server.backing) /\ sgen.buffer = <<>> /\ Live(sgen) =>
               ServePage(server.backing, sgen.offset, server.page) = <<>>

\* three entries served in two pages
C10_Witness ==
    /\ sgen.state = "finished"
    /\ ~server.mutated
    /\ Len(sgen.yielded) = 3
    /\ server.page = 2
    /\ Len(reqs) = 3
    /\ sgen.yielded[1].data # sgen.yielded[2].data

\* the elements s yielded are still there, in place, in t
Prefix(s, t) == Len(s) <= Len(t) /\ SubSeq(t, 1, Len(s)) = s

\* C11: a cluster-version stream that fails while it is consumed, at line k (the
\* line does not decode, or the connection breaks where line k should come), ends
\* there with the failure raised to the caller: what it has yielded are the
\* clusters of lines 1..k-1 in order, it never yields an element out of line
\* order, a pull never takes back what was yielded, and after the failure no
\* pull yields anything or requests anything (it raises StopIteration)
C11_FailureEndsStream ==
    /\ [](vgen.state # "none" /\ vgen.rsp # None =>
              /\ Len(vgen.yielded) <= Len(vgen.rsp.lines)
              /\ \A k \in 1..Len(vgen.yielded) :
                     vgen.yielded[k] = cluster_class(vgen.cls, json_loads(vgen.rsp.lines[k]))
              /\ vgen.state = "failed" =>
                     LET k == Len(vgen.yielded) + 1
                     IN /\ vgen.err \in {"MalformedResponse", "TransportError", "StopIteration"}
                        /\ vgen.err = "MalformedResponse" =>
                               k <= Len(vgen.rsp.lines) /\ json_loads(vgen.rsp.lines[k]) = None
                        /\ vgen.err = "TransportError" =>
                               k = Len(vgen.rsp.lines) + 1 /\ vgen.rsp.broken)
    /\ [][vgen.state # "none" /\ vgen'.state \notin {"none", "created"} =>
              /\ Prefix(vgen.yielded, vgen'.yielded)
              /\ vgen.state = "failed" =>
                     /\ vgen'.yielded = vgen.yielded
                     /\ vgen'.state = "failed"
                     /\ reqs' = reqs]_vars

\* the second of two lines does not decode: the cluster of the first was yielded
C11_Witness ==
    /\ vgen.state = "failed"
    /\ vgen.err = "MalformedResponse"
    /\ Len(vgen.yielded) = 1
    /\ Len(vgen.rsp.lines) = 2
    /\ vgen.rsp.lines[2] = ""

\* C12: two resources are equal exactly when their relative paths are the same
\* string, whatever bodies they hold (resolved or not, same or different)
C12_EqualByPath ==
    call.op = "__eq__" =>
        (call.value <=> res.api_path.p = call.arg.api_path.p)

\* equal with different bodies, and unequal with the same body
C12_Witness ==
    /\ call.op = "__eq__"
    /\ \/ call.value /\ res.data # call.arg.data
       \/ ~call.value /\ res.data = call.arg.data /\ res.data # None

\* a resource is read that holds a body: no fetch is due
ResolvedIsRead == FieldIsRead /\ res.data # None

\* C13 as stated: the relative_id an attribute configuration reports is the
\* path it was built with
C13_RelativeIdIsPath ==
    call.op = "field" /\ call.arg = "relativeId" /\ call.status = "returned" =>
        call.value = res.api_path.p

\* C13, amended: an attribute configuration built from a body b and a path p has
\* the same representation whether the constructor or from_json built it, and
\* building it requests nothing; while it holds b, relative_id reports b's
\* relativeId (which is p when the resource is built at its own relativeId, as
\* in test_resource) and every other field returns b's value, with no request
\* and the resource left as it was
C13_FieldsFromBody ==
    /\ [](call.op \in {"AttributeConfiguration", "from_json"} =>
              /\ res = [cls |-> "AttributeConfiguration", data |-> call.arg.b,
                        api_path |-> [p |-> call.arg.p]]
              /\ reqs = <<>>)
    /\ [][ResolvedIsRead =>
              /\ call'.status = "returned"
              /\ call'.value = res.data[call'.arg]
              /\ reqs' = <<>>
              /\ res' = res]_vars

\* relative_id was read on a resolved configuration held at a path that is
\* not its body's relativeId
C13_Witness ==
    /\ call.op = "field"
    /\ call.arg = "relativeId"
    /\ res.cls = "AttributeConfiguration"
    /\ res.data # None
    /\ res.api_path.p = "projects/1/attributeConfigurations//1"
    /\ reqs = <<>>

\* a step that calls one of the cluster-version operations: from the idle
\* caller, or anew on a stream that has ended
VersionsInvoked ==
    /\ call'.op \in VersionsOps
    /\ Idle \/ (vgen.state \in Ended /\ vgen'.state \notin Ended)

\* C14: calling published_cluster_versions or record_published_cluster_versions
\* requests nothing and opens no connection: the call returns a stream that has
\* not started. The POST is sent and the connection opened by the first pull,
\* and a stream that is dropped without a pull never causes a request
C14_NothingBeforeFirstPull ==
    /\ [](vgen.state = "created" \/ (vgen.state = "closed" /\ vgen.rsp = None) =>
              /\ reqs = <<>>
              /\ vgen.posts = <<>>
              /\ vgen.conn = "none"
              /\ vgen.released = 0)
    /\ [][VersionsInvoked =>
              /\ vgen'.state = "created"
              /\ reqs' = <<>>]_vars
    /\ [][vgen.state = "created" /\ vgen'.state \notin {"none", "created", "closed"} =>
              /\ Len(reqs') = 1
              /\ reqs'[1].method = "POST"
              /\ reqs'[1].path = vgen.endpoint
              /\ vgen'.rsp # None => vgen'.conn \in {"open", "closed"}]_vars

\* a stream that was dropped before any pull
C14_Witness ==
    /\ call.op \in VersionsOps
    /\ vgen.state = "closed"
    /\ vgen.rsp = None
    /\ reqs = <<>>

\* the sub-resources a project hands out unfetched, with the suffix and the
\* class of each
SubResources ==
    [pairs |-> [suffix |-> "/recordPairs", cls |-> "Dataset"],
     high_impact_pairs |-> [suffix |-> "/highImpactPairs", cls |-> "Dataset"],
     record_clusters |-> [suffix |-> "/recordClusters", cls |-> "Dataset"],
     pair_matching_model |-> [suffix |-> "/recordPairsWithPredictions/model",
                              cls |-> "MachineLearningModel"],
     binning_model |-> [suffix |-> "/binningModel", cls |-> "BinningModel"]]

\* C15: pairs, high_impact_pairs, record_clusters, pair_matching_model and
\* binning_model request nothing, leave the project as it was, and return the
\* resource at the project's path followed by the fixed suffix of the
\* operation; the first four come without a body, the binning model comes
\* with a body that holds that path as its relativeId
C15_SubResources ==
    /\ [](call.op \in DOMAIN SubResources =>
              LET alias == proj.api_path \o SubResources[call.op].suffix
              IN /\ call.status = "returned"
                 /\ reqs = <<>>
                 /\ res.cls = SubResources[call.op].cls
                 /\ res.api_path.p = alias
                 /\ res.data = IF call.op = "binning_model"
                               THEN [relativeId |-> alias] ELSE None)
    /\ [][call'.op \in DOMAIN SubResources => proj' = proj]_vars

C15_Witness ==
    /\ call.op = "record_clusters"
    /\ res.api_path.p = "projects/1/recordClusters"
    /\ res.data = None

\* a step that calls stream(): from the idle caller, or anew on a stream that
\* has ended
StreamInvoked ==
    /\ call'.op = "stream"
    /\ Idle \/ (sgen.state \in Ended /\ (sgen'.state \notin Ended \/ call'.after # call.after))

\* C16: every call of stream() and of the cluster-version operations returns a
\* stream of its own that starts from the beginning, also when it is called
\* again after the stream before was exhausted, failed or was abandoned: nothing
\* is yielded or requested yet, the requests start over (offset 0, one new POST),
\* and a stream() called again and consumed to its end yields the collection as
\* it is by then. A stream that has ended yields nothing more and requests
\* nothing more, however often it is pulled or closed
C16_InvocationsIndependent ==
    /\ [][StreamInvoked =>
              /\ sgen' = PageStream("AttributeConfiguration", coll.api_path)
              /\ reqs' = <<>>]_vars
    /\ [][VersionsInvoked =>
              /\ vgen'.state = "created"
              /\ vgen'.ids = call'.arg
              /\ vgen'.pos = 0
              /\ vgen'.yielded = <<>>
              /\ vgen'.posts = <<>>
              /\ vgen'.rsp = None
              /\ reqs' = <<>>]_vars
    /\ [](sgen.state # "none" =>
              /\ reqs = sgen.gets
              /\ \A k \in 1..Len(reqs) : reqs[k].method = "GET"
              /\ reqs # <<>> => reqs[1].payload.offset = 0)
    /\ [](vgen.state # "none" => reqs = vgen.posts /\ Len(reqs) <= 1)
    /\ [](call.op = "stream" /\ call.after # "none" /\ sgen.state = "finished" =>
              /\ Len(sgen.yielded) = Len(server.backing)
              /\ \A k \in 1..Len(sgen.yielded) : sgen.yielded[k].data = server.backing[k])
    /\ [][sgen.state \in Ended /\ sgen'.state \in Ended =>
              /\ sgen'.state = sgen.state
              /\ sgen'.yielded = sgen.yielded
              /\ reqs' = reqs]_vars
    /\ [][vgen.state \in Ended /\ vgen'.state \in Ended =>
              /\ vgen'.state = vgen.state
              /\ vgen'.yielded = vgen.yielded
              /\ reqs' = reqs]_vars

\* stream() was called again after an exhausted stream, and the new stream was
\* consumed to its end: two entries, fetched again from the first page
C16_Witness ==
    /\ call.op = "stream"
    /\ call.after = "finished"
    /\ sgen.state = "finished"
    /\ Len(sgen.yielded) = 2
    /\ Len(reqs) >= 2
    /\ reqs[1].payload.offset = 0

\* the request failed: no answer came, or the answer's status is no 2xx
Failing(x) == x.rsp.kind = "transport" \/ ~Ok(x)

\* C17: there is no retry and no fallback: when a request of create,
\* published_clusters_configuration, estimate_pairs or of a cluster-version
\* stream fails (no answer, or an error status), that request is the only one
\* the operation issues and the failure reaches the caller
C17_NoRetry ==
    /\ /\ call.op \in {"create", "published_clusters_configuration", "estimate_pairs"}
       /\ \E k \in 1..Len(reqs) : Failing(reqs[k])
       => /\ Len(reqs) = 1
          /\ call.status = "raised"
          /\ res = None
    /\ /\ call.op \in VersionsOps
       /\ \E k \in 1..Len(reqs) : Failing(reqs[k])
       => /\ Len(reqs) = 1
          /\ vgen.state = "failed"
          /\ vgen.err \in {"TransportError", "NotFound", "AuthError", "RequestFailed",
                           "StopIteration"}
          /\ vgen.yielded = <<>>

====
